---- MODULE Spec2Model ----
(***************************************************************************)
(* Module load of the package initializer src/__init__.py.                 *)
(*                                                                         *)
(* The initializer is a straight-line module body: a docstring, two        *)
(* metadata assignments, one relative from-import and the export list.     *)
(* The state is the package namespace the body writes, the position of the *)
(* body, the outcome of the load, and the utils submodule the import       *)
(* resolves against.                                                       *)
(***************************************************************************)
EXTENDS Integers, Sequences, FiniteSets, TLC

\* Number of distinct function objects the utils submodule may bind.
NumObjects == 2

Objects == 1..NumObjects

\* Names the package namespace is observed under: everything the module
\* body stores, the submodule attribute, and a utils name that is not
\* listed in the from-import.
PkgNames ==
    {"__doc__", "__version__", "__author__", "utils",
     "set_seed", "get_logger", "__all__", "helper"}

\* Names the utils submodule may or may not define.
UtilsNames == {"set_seed", "get_logger", "helper"}

\* The names of the from-import statement, in source order.
ImportedNames == <<"set_seed", "get_logger">>

(***************************************************************************)
(* Values: one record shape for every Python value of the model, so that   *)
(* any two values can be compared.                                         *)
(***************************************************************************)
Unbound == [kind |-> "unbound", str |-> "", obj |-> 0, list |-> <<>>]

Str(s) == [kind |-> "str", str |-> s, obj |-> 0, list |-> <<>>]

Obj(n) == [kind |-> "obj", str |-> "", obj |-> n, list |-> <<>>]

ModuleRef(name) == [kind |-> "module", str |-> name, obj |-> 0, list |-> <<>>]

List(l) == [kind |-> "list", str |-> "", obj |-> 0, list |-> l]

DocString == "Kaggle Competition Source Code Package"

VersionLiteral == "0.1.0"

\* A different author string.
AuthorLiteral_Other == "Kaggle Competitors"

AuthorLiteral == "Kaggle Competitor"

\* Export list written in the wrong order.
AllLiteral_Reordered == <<"get_logger", "set_seed">>

\* Export list naming a utils function that the package never imports.
AllLiteral_ExtraName == <<"set_seed", "get_logger", "helper">>

AllLiteral == <<"set_seed", "get_logger">>

(***************************************************************************)
(* The utils submodule, as the import system finds it: absent, or present  *)
(* with each of its names either undefined or bound to a function object.  *)
(***************************************************************************)
UtilsModules ==
    {[exists |-> FALSE, ns |-> [n \in UtilsNames |-> Unbound]]}
    \cup
    {[exists |-> TRUE, ns |-> f] :
        f \in [UtilsNames -> {Unbound} \cup {Obj(o) : o \in Objects}]}

VARIABLES
    pc,          \* next line of the module body: "line1" .. "done" / "raised"
    status,      \* "unloaded", "loading", "loaded", "import_error"
    ns,          \* the package namespace: PkgNames -> value
    utilsMod,    \* the utils submodule the relative import resolves against
    writes,      \* number of stores the body has made to each name
    importSteps  \* number of import statements the body has executed

vars == <<pc, status, ns, utilsMod, writes, importSteps>>

\* STORE_NAME: bind a name in the package namespace.
Store(space, name, value) == [space EXCEPT ![name] = value]

Count(w, name) == [w EXCEPT ![name] = @ + 1]

IsBound(space, name) == space[name].kind # "unbound"

BoundNames(space) == {n \in DOMAIN space : IsBound(space, n)}

Init ==
    /\ pc = "line1"
    /\ status = "unloaded"
    /\ ns = [n \in PkgNames |-> Unbound]
    /\ utilsMod \in UtilsModules
    /\ writes = [n \in PkgNames |-> 0]
    /\ importSteps = 0

\* Lines 1-6: the docstring expression statement stores __doc__.
ExecDocstring ==
    /\ pc = "line1"
    /\ ns' = Store(ns, "__doc__", Str(DocString))
    /\ writes' = Count(writes, "__doc__")
    /\ status' = "loading"
    /\ pc' = "line8"
    /\ UNCHANGED <<utilsMod, importSteps>>

\* Line 8: __version__ = "0.1.0"
AssignVersion ==
    /\ pc = "line8"
    /\ ns' = Store(ns, "__version__", Str(VersionLiteral))
    /\ writes' = Count(writes, "__version__")
    /\ pc' = "line9"
    /\ UNCHANGED <<status, utilsMod, importSteps>>

\* Line 9 storing under the name of line 8.
AssignAuthor_StoresVersion ==
    /\ pc = "line9"
    /\ ns' = Store(ns, "__version__", Str(AuthorLiteral))
    /\ writes' = Count(writes, "__version__")
    /\ pc' = "line12"
    /\ UNCHANGED <<status, utilsMod, importSteps>>

\* Line 9: __author__ = "Kaggle Competitor"
AssignAuthor ==
    /\ pc = "line9"
    /\ ns' = Store(ns, "__author__", Str(AuthorLiteral))
    /\ writes' = Count(writes, "__author__")
    /\ pc' = "line12"
    /\ UNCHANGED <<status, utilsMod, importSteps>>

(***************************************************************************)
(* Line 12: from .utils import set_seed, get_logger                        *)
(*                                                                         *)
(* IMPORT_NAME resolves the submodule; when it is found the import system  *)
(* binds it as the attribute utils of the package.  Then, name by name in  *)
(* source order, IMPORT_FROM reads the attribute of the submodule and      *)
(* STORE_NAME binds it; the first missing attribute raises ImportError and *)
(* leaves the names already stored in place.                               *)
(***************************************************************************)
\* The import written without the leading dot: the name is looked up as a
\* top-level module, where the submodule is never found.
ImportName_Absolute(st, mod) == [st EXCEPT !.raised = TRUE]

ImportName(st, mod) ==
    IF mod.exists
    THEN [ns |-> Store(st.ns, "utils", ModuleRef("utils")),
          writes |-> Count(st.writes, "utils"),
          raised |-> FALSE]
    ELSE [st EXCEPT !.raised = TRUE]

\* IMPORT_FROM that never raises on a missing attribute.
ImportFromOne_NoCheck(st, mod, name) ==
    IF st.raised THEN st
    ELSE [ns |-> Store(st.ns, name, mod.ns[name]),
          writes |-> Count(st.writes, name),
          raised |-> FALSE]

\* The two imported names bound crosswise.
ImportFromOne_Swapped(st, mod, name) ==
    LET other == IF name = "set_seed" THEN "get_logger"
                 ELSE IF name = "get_logger" THEN "set_seed" ELSE name
    IN IF st.raised THEN st
       ELSE IF IsBound(mod.ns, name)
            THEN [ns |-> Store(st.ns, name, mod.ns[other]),
                  writes |-> Count(st.writes, name),
                  raised |-> FALSE]
            ELSE [st EXCEPT !.raised = TRUE]

ImportFromOne(st, mod, name) ==
    IF st.raised THEN st
    ELSE IF IsBound(mod.ns, name)
         THEN [ns |-> Store(st.ns, name, mod.ns[name]),
               writes |-> Count(st.writes, name),
               raised |-> FALSE]
         ELSE [st EXCEPT !.raised = TRUE]

RECURSIVE ImportFromList(_, _, _)
ImportFromList(st, mod, names) ==
    IF names = <<>> THEN st
    ELSE ImportFromList(ImportFromOne(st, mod, Head(names)), mod, Tail(names))

\* A from-import that binds nothing unless every name resolves.
ImportFrom_Atomic(space, w, mod, names) ==
    LET st0 == [ns |-> space, writes |-> w, raised |-> FALSE]
        r == ImportFromList(ImportName(st0, mod), mod, names)
    IN IF r.raised THEN [st0 EXCEPT !.raised = TRUE] ELSE r

\* A from-import that also pulls in the remaining public name of utils.
ImportFrom_Star(space, w, mod, names) ==
    LET st0 == [ns |-> space, writes |-> w, raised |-> FALSE]
        r == ImportFromList(ImportName(st0, mod), mod, names)
    IN IF r.raised \/ ~IsBound(mod.ns, "helper") THEN r
       ELSE [r EXCEPT !.ns = Store(r.ns, "helper", mod.ns["helper"]),
                      !.writes = Count(r.writes, "helper")]

ImportFrom(space, w, mod, names) ==
    ImportFromList(ImportName([ns |-> space, writes |-> w, raised |-> FALSE],
                              mod),
                   mod, names)

\* The import statement duplicated in the module body.
ImportFromUtils_Twice ==
    /\ pc = "line12"
    /\ LET r1 == ImportFrom(ns, writes, utilsMod, ImportedNames)
           r == IF r1.raised THEN r1
                ELSE ImportFrom(r1.ns, r1.writes, utilsMod, ImportedNames)
       IN /\ ns' = r.ns
          /\ writes' = r.writes
          /\ IF r.raised
             THEN pc' = "raised" /\ status' = "import_error"
             ELSE pc' = "line14" /\ status' = status
    /\ importSteps' = importSteps + 2
    /\ UNCHANGED utilsMod

ImportFromUtils ==
    /\ pc = "line12"
    /\ LET r == ImportFrom(ns, writes, utilsMod, ImportedNames)
       IN /\ ns' = r.ns
          /\ writes' = r.writes
          /\ IF r.raised
             THEN pc' = "raised" /\ status' = "import_error"
             ELSE pc' = "line14" /\ status' = status
    /\ importSteps' = importSteps + 1
    /\ UNCHANGED utilsMod

\* Line 14: __all__ = ["set_seed", "get_logger"]; the body then ends and
\* the package is loaded.
AssignAll ==
    /\ pc = "line14"
    /\ ns' = Store(ns, "__all__", List(AllLiteral))
    /\ writes' = Count(writes, "__all__")
    /\ pc' = "done"
    /\ status' = "loaded"
    /\ UNCHANGED <<utilsMod, importSteps>>

Next ==
    \/ ExecDocstring
    \/ AssignVersion
    \/ AssignAuthor
    \/ ImportFromUtils
    \/ AssignAll

Spec == Init /\ [][Next]_vars

\* The module body is run to its end by the interpreter: every enabled
\* statement is eventually executed.
FairSpec == Spec /\ WF_vars(Next)

TypeOK ==
    /\ pc \in {"line1", "line8", "line9", "line12", "line14", "done", "raised"}
    /\ status \in {"unloaded", "loading", "loaded", "import_error"}
    /\ DOMAIN ns = PkgNames
    /\ utilsMod \in UtilsModules
    /\ importSteps \in 0..1

\* The submodule resolves and defines both imported names.
UtilsOk ==
    /\ utilsMod.exists
    /\ \A i \in 1..Len(ImportedNames) : IsBound(utilsMod.ns, ImportedNames[i])

(***************************************************************************)
(* Properties                                                              *)
(***************************************************************************)

C2_ExportListExact ==
    status = "loaded" =>
        /\ ns["__all__"] = List(<<"set_seed", "get_logger">>)
        /\ \A i \in 1..Len(ns["__all__"].list) :
              ns["__all__"].list[i] \notin {"__version__", "__author__", "utils"}

C2_Witness == status = "loaded" /\ IsBound(ns, "__all__")

\* C3 (as stated): after a successful import the names bound in the
\* package namespace by the initializer are exactly set_seed, get_logger,
\* __version__ and __author__.
C3_ExactlyFourAttributes ==
    status = "loaded" =>
        BoundNames(ns) = {"set_seed", "get_logger", "__version__", "__author__"}

\* C3 (amended): after a successful import set_seed, get_logger,
\* __version__ and __author__ are all bound, and the only other names the
\* initializer has bound are __all__, __doc__ and the submodule name utils.
C3_ExposedAttributes ==
    status = "loaded" =>
        BoundNames(ns) = {"set_seed", "get_logger", "__version__", "__author__",
                          "__all__", "__doc__", "utils"}

C3_Witness ==
    /\ status = "loaded"
    /\ IsBound(utilsMod.ns, "helper")
    /\ IsBound(ns, "utils")

\* C4: from the assignment of line 8 onward, in the loaded state and in any
\* import-error state, __version__ is the string "0.1.0" and has been
\* stored exactly once.
C4_VersionConstant ==
    pc \notin {"line1", "line8"} =>
        /\ ns["__version__"] = Str("0.1.0")
        /\ writes["__version__"] = 1

C4_Witness ==
    /\ status = "import_error"
    /\ ns["__version__"] = Str("0.1.0")
    /\ IsBound(ns, "utils")

\* C5: from the assignment of line 9 onward, in the loaded state and in any
\* import-error state, __author__ is the string "Kaggle Competitor" and has
\* been stored exactly once.
C5_AuthorConstant ==
    pc \notin {"line1", "line8", "line9"} =>
        /\ ns["__author__"] = Str("Kaggle Competitor")
        /\ writes["__author__"] = 1

C5_Witness ==
    /\ status = "import_error"
    /\ ns["__author__"] = Str("Kaggle Competitor")
    /\ ~utilsMod.exists

\* C6: the load fails exactly when utils does not exist or lacks set_seed
\* or lacks get_logger, the failure arises at the import statement and
\* leaves the package not loaded; otherwise no step fails and the load ends
\* loaded.
C6_OnlyImportResolutionFails ==
    LET missing == \/ ~utilsMod.exists
                   \/ ~IsBound(utilsMod.ns, "set_seed")
                   \/ ~IsBound(utilsMod.ns, "get_logger")
    IN /\ pc \in {"done", "raised"} =>
              /\ missing => status = "import_error"
              /\ ~missing => status = "loaded"
       /\ pc \in {"line14", "done", "raised"} => (pc = "raised" <=> missing)
       /\ status = "import_error" => pc = "raised" /\ importSteps = 1
       /\ ~missing => status # "import_error"

C6_Witness ==
    /\ status = "import_error"
    /\ utilsMod.exists
    /\ IsBound(utilsMod.ns, "set_seed")
    /\ ~IsBound(utilsMod.ns, "get_logger")

\* C7: after a successful import the package names set_seed and get_logger
\* are bound to the very objects utils binds under the same names.
C7_ReExportSameObjects ==
    status = "loaded" =>
        /\ ns["set_seed"] = utilsMod.ns["set_seed"]
        /\ ns["get_logger"] = utilsMod.ns["get_logger"]
        /\ ns["set_seed"].kind = "obj"
        /\ ns["get_logger"].kind = "obj"

C7_Witness ==
    /\ status = "loaded"
    /\ utilsMod.ns["set_seed"] # utilsMod.ns["get_logger"]
    /\ ns["set_seed"] = utilsMod.ns["set_seed"]

\* Names the from-import binds: the two imported names and the submodule.
ImportBindings == {"set_seed", "get_logger", "utils"}

\* C8 (as stated): the load performs exactly one import step, and besides
\* the imported bindings and the export list it writes only __version__ and
\* __author__, each exactly once.
C8_WritesOnlyTwoConstants ==
    /\ importSteps <= 1
    /\ pc \in {"line14", "done", "raised"} => importSteps = 1
    /\ \A n \in PkgNames : writes[n] <= 1
    /\ \A n \in PkgNames \ (ImportBindings \cup {"__all__"}) :
          writes[n] > 0 => n \in {"__version__", "__author__"}
    /\ pc \in {"line12", "line14", "done", "raised"} =>
          writes["__version__"] = 1 /\ writes["__author__"] = 1

\* C8 (amended): the load performs exactly one import step, and besides
\* the imported bindings and the export list it writes only the string
\* constants __version__, __author__ and the docstring __doc__, each
\* exactly once.
C8_WritesOnlyStringConstants ==
    /\ importSteps <= 1
    /\ pc \in {"line14", "done", "raised"} => importSteps = 1
    /\ \A n \in PkgNames : writes[n] <= 1
    /\ \A n \in PkgNames \ (ImportBindings \cup {"__all__"}) :
          writes[n] > 0 => n \in {"__version__", "__author__", "__doc__"}
    /\ pc \in {"line12", "line14", "done", "raised"} =>
          writes["__version__"] = 1 /\ writes["__author__"] = 1
    /\ pc # "line1" => writes["__doc__"] = 1

C8_Witness ==
    /\ pc = "done"
    /\ importSteps = 1
    /\ writes["__doc__"] = 1
    /\ writes["__all__"] = 1

\* Ordering of the load steps shared by both readings of C9: the metadata
\* constants are assigned before the import is attempted, and __all__ is
\* assigned only after the import has succeeded.
C9_Ordering ==
    /\ importSteps > 0 => IsBound(ns, "__version__") /\ IsBound(ns, "__author__")
    /\ pc = "line12" => IsBound(ns, "__version__") /\ IsBound(ns, "__author__")
    /\ IsBound(ns, "__all__") => importSteps = 1 /\ status = "loaded"

\* C9 (as stated): the ordering above, and in any import-error state both
\* metadata constants are assigned while __all__, set_seed and get_logger
\* are all unbound.
C9_ErrorStateNothingImported ==
    /\ C9_Ordering
    /\ status = "import_error" =>
          /\ IsBound(ns, "__version__") /\ IsBound(ns, "__author__")
          /\ ~IsBound(ns, "__all__")
          /\ ~IsBound(ns, "set_seed")
          /\ ~IsBound(ns, "get_logger")

\* C9 (amended): the ordering above, and in any import-error state both
\* metadata constants are assigned while __all__ and get_logger are
\* unbound; set_seed is unbound unless utils defines set_seed, in which
\* case it was bound before the missing get_logger raised.
C9_ErrorStatePartialImport ==
    /\ C9_Ordering
    /\ status = "import_error" =>
          /\ IsBound(ns, "__version__") /\ IsBound(ns, "__author__")
          /\ ~IsBound(ns, "__all__")
          /\ ~IsBound(ns, "get_logger")
          /\ IsBound(ns, "set_seed") <=>
                (utilsMod.exists /\ IsBound(utilsMod.ns, "set_seed"))

C9_Witness ==
    /\ status = "import_error"
    /\ IsBound(ns, "set_seed")
    /\ ~IsBound(ns, "get_logger")

\* C10: whenever __all__ is bound, every name it lists is bound in the
\* package namespace.
C10_ExportListConsistent ==
    IsBound(ns, "__all__") =>
        \A i \in 1..Len(ns["__all__"].list) :
            /\ ns["__all__"].list[i] \in PkgNames
            /\ IsBound(ns, ns["__all__"].list[i])

C10_Witness ==
    /\ IsBound(ns, "__all__")
    /\ Len(ns["__all__"].list) = 2
    /\ IsBound(ns, "get_logger")

====
